---- MODULE Spec2Model ----
(***************************************************************************)
(* chum: a storage load generator.  The model covers the shared object     *)
(* queue (queue.rs), the backend operations that use it (fs.rs, s3.rs,     *)
(* webdav.rs, deleter.rs, reader.rs), the worker loop (worker.rs), the     *)
(* statistics collector (utils.rs) and the launcher that starts and stops  *)
(* the fleet.                                                              *)
(***************************************************************************)
EXTENDS Integers, Sequences, FiniteSets, TLC

(* ------------------------------ bounds -------------------------------- *)
NWorkers == 2
MaxCap == 2
MaxReadList == 1
MaxWrites == 1
MaxWritesOnly == 5
MaxSize == 1
MaxDataCap == 2
MaxChan == 1
MaxInserts == 4
MaxQKeys == 3
MaxChunks == 3
MaxRem == 12

\* The length of the pre-generated random buffer.
BufLen == 65536

(* ----------------------------- vocabulary ----------------------------- *)
Workers == 1..NWorkers
QueueModes == {"lru", "mru", "rand"}
Protocols == {"fs", "s3", "webdav"}
Operators == {"r", "w", "d"}
Workloads == (SUBSET Operators) \ {{}}
Distr == 1..MaxSize
NoKey == 0
MaxTotal == MaxDataCap + MaxSize

Range(s) == {s[i] : i \in 1..Len(s)}

(* ------------------------------- Queue -------------------------------- *)
\* Vec::get(idx): the element at a 0-based index, None when out of range.
VecGet(v, idx) == IF idx >= 0 /\ idx < Len(v) THEN v[idx + 1] ELSE NoKey

\* Vec::remove(idx): the vector without the element at a 0-based index.
VecRemove(v, idx) == [j \in 1..(Len(v) - 1) |-> IF j <= idx THEN v[j] ELSE v[j + 1]]

\* rand::thread_rng().gen_range(0, len): the indices a draw can produce.
\* Only Rand mode draws; the other modes ignore the index.
GenRange(q, m) ==
    IF m = "rand" /\ q # <<>> THEN 0..(Len(q) - 1) ELSE {0}

\* A slip in Queue::get: Lru reads the newest item instead of the oldest.
GetIndexNewest(q, m, r) ==
    CASE m = "lru" -> Len(q) - 1
      [] m = "mru" -> Len(q)
      [] OTHER -> r

\* The index Queue::get reads in each mode.
GetIndex(q, m, r) ==
    CASE m = "lru" -> 0
      [] m = "mru" -> Len(q)
      [] OTHER -> r

\* Queue::get: the sampled item, None on an empty queue.
QueueGet(q, m, r) ==
    IF q = <<>> THEN NoKey ELSE VecGet(q, GetIndex(q, m, r))

\* A slip in Queue::remove: Lru drops the newest item instead of the oldest.
RemoveIndexNewest(q, m, r) ==
    CASE m = "lru" -> Len(q) - 1
      [] m = "mru" -> 0
      [] OTHER -> r

\* The index Queue::remove removes in each mode.
RemoveIndex(q, m, r) ==
    CASE m = "lru" -> 0
      [] m = "mru" -> 0
      [] OTHER -> r

\* Queue::remove: the item removed (None on an empty queue).
QueueRemoved(q, m, r) ==
    IF q = <<>> THEN NoKey ELSE VecGet(q, RemoveIndex(q, m, r))

\* Queue::remove: the items left.
QueueRemove(q, m, r) ==
    IF q = <<>> THEN q ELSE VecRemove(q, RemoveIndex(q, m, r))

\* Queue::insert: push below capacity, otherwise remove one item and push.
QueueInsert(q, c, m, r, k) ==
    IF Len(q) < c
    THEN Append(q, k)
    ELSE Append(QueueRemove(q, m, r), k)

(* ------------------------------- state -------------------------------- *)
VARIABLES
    mode, cap, items,          \* Queue { items, cap, mode }
    protocol, read_queue,      \* the backend a worker builds and its read_queue flag
    ops, data_cap,             \* the expanded workload and the data cap
    pc, op, fname, size,       \* each worker: position, operation, object, bytes
    outcome,                   \* each worker: what the backend call returned
    signal,                    \* each worker's stop channel
    chan,                      \* the results channel, sender to receiver
    cpc, total_bytes_written,  \* collect_stats: position and its cap counter
    lpc, nlines,               \* the launcher and the read-list lines it has loaded
    nextid,                    \* the next unused object id
    qcall, qret, hist, takes,  \* direct use of the Queue: last call, its result,
                               \* the keys inserted and the number of removals
    wsize, bytes_to_go, buf,   \* write(): the size drawn, the bytes still to copy
    bpc,                       \* and the length of the payload built so far
    format,                    \* collect_stats: the OutputFormat
    op_stats, op_ticks,        \* its per-thread-per-interval and per-interval maps
    op_agg,                    \* its lifetime map
    out, tab,                  \* the lines of the last print_human / print_tabular
    drained, wake_from,        \* every record drained since start, and how many of
                               \* them had been drained when the current wake began
    arg, ret,                  \* a parsing function's argument and what it returned
    overflow_checks,           \* whether the build traps integer overflow
    lock,                      \* the worker inside the Queue's mutex, or 0
    deleted,                   \* the objects removed from the target so far
    opvec, setup_i             \* the expanded workload and, for each worker, the
                               \* entry its setup loop is at

vars == <<mode, cap, items, protocol, read_queue, ops, data_cap, pc, op, fname,
          size, outcome, signal, chan, cpc, total_bytes_written, lpc, nlines,
          nextid, qcall, qret, hist, takes, wsize, bytes_to_go, buf, bpc,
          format, op_stats, op_ticks, op_agg, out, tab, drained, wake_from,
          arg, ret, overflow_checks, lock, deleted, opvec, setup_i>>

configVars == <<mode, cap, protocol, read_queue, ops, data_cap>>
workerVars == <<pc, op, fname, size, outcome>>
collectorVars == <<cpc, total_bytes_written>>
launcherVars == <<lpc, nlines>>
harnessVars == <<qcall, qret, hist, takes>>
payloadVars == <<wsize, bytes_to_go, buf, bpc>>
statsVars == <<format, op_stats, op_ticks, op_agg, out, tab, drained, wake_from>>
callVars == <<arg, ret, overflow_checks>>
extraVars == <<lock, deleted, opvec, setup_i>>

\* The state after construction: Queue::new, the channels, no thread spawned.
Setup(m, c, p, rq, o, dc) ==
    /\ mode = m /\ cap = c /\ items = <<>>
    /\ protocol = p /\ read_queue = rq /\ ops = o /\ data_cap = dc
    /\ pc = [w \in Workers |-> "loop"]
    /\ op = [w \in Workers |-> "-"]
    /\ fname = [w \in Workers |-> NoKey]
    /\ size = [w \in Workers |-> 0]
    /\ outcome = [w \in Workers |-> "None"]
    /\ signal = [w \in Workers |-> "empty"]
    /\ chan = <<>>
    /\ cpc = "sleep" /\ total_bytes_written = 0
    /\ lpc = "populate" /\ nlines = 0 /\ nextid = MaxReadList + 1
    /\ qcall = "new" /\ qret = NoKey /\ hist = <<>> /\ takes = 0
    /\ lock = 0 /\ deleted = {}
    /\ opvec = SelectSeq(<<"r", "w", "d">>, LAMBDA x : x \in o)
    /\ setup_i = [w \in Workers |-> Cardinality(o) + 1]

\* No write() is building a payload.
NoPayload == wsize = 0 /\ bytes_to_go = 0 /\ buf = 0 /\ bpc = "idle"

\* collect_stats has drained nothing and printed nothing.
NoStats ==
    /\ format = "h"
    /\ op_stats = <<>> /\ op_ticks = <<>> /\ op_agg = <<>>
    /\ out = {} /\ tab = <<>> /\ drained = <<>> /\ wake_from = 0

\* No parsing function has been called.
NoCall == arg = <<>> /\ ret = [kind |-> "none"] /\ overflow_checks = FALSE

(* ------------------------------ Backend ------------------------------- *)
\* Whether delete() takes its key with Queue::remove: Fs and S3 do, WebDav
\* samples it with Queue::get and leaves it in the queue.
DeleteTakes(p) == p \in {"fs", "s3"}

\* Whether a failed delete() puts its key back with Queue::insert.
DeleteRequeues(p) == p \in {"fs", "s3"}

\* Whether a successful write() inserts its key: Fs always, whatever
\* wopts.read_queue says; S3 and WebDav when wopts.read_queue is set.
WriteInserts(p, rq) == p = "fs" \/ rq

\* A slip in read()/delete(): an empty queue is reported as an error.
SkipAsError(w, o) ==
    /\ pc' = [pc EXCEPT ![w] = "check"]
    /\ op' = [op EXCEPT ![w] = o]
    /\ outcome' = [outcome EXCEPT ![w] = "Failed"]
    /\ UNCHANGED <<fname, size>>

\* The backend call returned Ok(None): nothing was done.
Skip(w, o) ==
    /\ pc' = [pc EXCEPT ![w] = "sleep"]
    /\ op' = [op EXCEPT ![w] = o]
    /\ outcome' = [outcome EXCEPT ![w] = "Skipped"]
    /\ UNCHANGED <<fname, size>>

\* The backend call has its object and its request is in flight.
StartIo(w, o, k, s) ==
    /\ pc' = [pc EXCEPT ![w] = "io"]
    /\ op' = [op EXCEPT ![w] = o]
    /\ fname' = [fname EXCEPT ![w] = k]
    /\ size' = [size EXCEPT ![w] = s]
    /\ UNCHANGED outcome

\* write(): a fresh uuid and a size drawn from the distribution.
BeginWrite(w) ==
    /\ nextid <= MaxReadList + (IF ops = {"w"} THEN MaxWritesOnly ELSE MaxWrites)
    /\ \E s \in Distr : StartIo(w, "w", nextid, s)
    /\ nextid' = nextid + 1
    /\ UNCHANGED items

\* read(): lock the queue, sample a key, unlock; Ok(None) when there is none.
BeginRead(w) ==
    /\ \E r \in GenRange(items, mode) :
          LET k == QueueGet(items, mode, r)
          IN  IF k = NoKey THEN Skip(w, "r") ELSE StartIo(w, "r", k, 0)
    /\ UNCHANGED <<items, nextid>>

\* delete(): lock the queue, take (WebDav: sample) a key, unlock; Ok(None)
\* when there is none.
BeginDelete(w) ==
    /\ \E r \in GenRange(items, mode) :
          LET k == IF DeleteTakes(protocol)
                   THEN QueueRemoved(items, mode, r)
                   ELSE QueueGet(items, mode, r)
          IN  IF k = NoKey
              THEN Skip(w, "d") /\ UNCHANGED items
              ELSE /\ StartIo(w, "d", k, 0)
                   /\ items' = IF DeleteTakes(protocol)
                               THEN QueueRemove(items, mode, r)
                               ELSE items
    /\ UNCHANGED nextid

\* The request succeeded: Ok(Some(WorkerInfo)).
IoOk(w) ==
    /\ pc[w] = "io"
    /\ pc' = [pc EXCEPT ![w] = "check"]
    /\ outcome' = [outcome EXCEPT ![w] = "Completed"]
    /\ IF op[w] = "r"
       THEN \E s \in Distr : size' = [size EXCEPT ![w] = s]
       ELSE UNCHANGED size
    /\ IF op[w] = "w" /\ WriteInserts(protocol, read_queue)
       THEN \E r \in GenRange(items, mode) :
               items' = QueueInsert(items, cap, mode, r, fname[w])
       ELSE UNCHANGED items
    /\ UNCHANGED <<op, fname>>

\* A slip in write(): the key is registered although the write failed.
IoErrRegistersWrite(w) ==
    /\ pc[w] = "io"
    /\ pc' = [pc EXCEPT ![w] = "check"]
    /\ outcome' = [outcome EXCEPT ![w] = "Failed"]
    /\ size' = [size EXCEPT ![w] = 0]
    /\ IF op[w] = "w" \/ (op[w] = "d" /\ DeleteRequeues(protocol))
       THEN \E r \in GenRange(items, mode) :
               items' = QueueInsert(items, cap, mode, r, fname[w])
       ELSE UNCHANGED items
    /\ UNCHANGED <<op, fname>>

\* A slip in read(): a key whose read failed is dropped from the queue.
IoErrDropsRead(w) ==
    /\ pc[w] = "io"
    /\ pc' = [pc EXCEPT ![w] = "check"]
    /\ outcome' = [outcome EXCEPT ![w] = "Failed"]
    /\ size' = [size EXCEPT ![w] = 0]
    /\ IF op[w] = "d" /\ DeleteRequeues(protocol)
       THEN \E r \in GenRange(items, mode) :
               items' = QueueInsert(items, cap, mode, r, fname[w])
       ELSE IF op[w] = "r"
            THEN items' = SelectSeq(items, LAMBDA x : x # fname[w])
            ELSE UNCHANGED items
    /\ UNCHANGED <<op, fname>>

\* The request failed: Err(ChumError).
IoErr(w) ==
    /\ pc[w] = "io"
    /\ pc' = [pc EXCEPT ![w] = "check"]
    /\ outcome' = [outcome EXCEPT ![w] = "Failed"]
    /\ size' = [size EXCEPT ![w] = 0]
    /\ IF op[w] = "d" /\ DeleteRequeues(protocol)
       THEN \E r \in GenRange(items, mode) :
               items' = QueueInsert(items, cap, mode, r, fname[w])
       ELSE UNCHANGED items
    /\ UNCHANGED <<op, fname>>

\* Whether read() unwraps the result of reading the response body: S3::read
\* calls read_to_end(..).expect(..) and content_length.expect(..).
ReadBodyPanics(p) == p = "s3"

\* The response arrived but its body could not be read: the expect() panics
\* and the worker thread unwinds.
IoPanic(w) ==
    /\ pc[w] = "io"
    /\ op[w] = "r"
    /\ ReadBodyPanics(protocol)
    /\ pc' = [pc EXCEPT ![w] = "panicked"]
    /\ op' = [op EXCEPT ![w] = "-"]
    /\ fname' = [fname EXCEPT ![w] = NoKey]
    /\ size' = [size EXCEPT ![w] = 0]
    /\ outcome' = [outcome EXCEPT ![w] = "None"]
    /\ UNCHANGED items

(* ------------------------------- Worker ------------------------------- *)
\* The top of the loop has chosen operator o of the workload and calls it.
WorkerCall(w, o) ==
    /\ lpc # "populate"
    /\ pc[w] = "loop"
    /\ o \in ops
    /\ \/ o = "w" /\ BeginWrite(w)
       \/ o = "r" /\ BeginRead(w)
       \/ o = "d" /\ BeginDelete(w)
    /\ UNCHANGED <<configVars, payloadVars, statsVars, callVars, extraVars, signal, chan, collectorVars, launcherVars, harnessVars>>

\* self.ops.choose(&mut rng): any entry of the workload.
WorkerBegin(w) == \E o \in Operators : WorkerCall(w, o)

\* The backend call of the worker returns with Some result or an error.
WorkerIo(w) ==
    /\ IoOk(w) \/ IoErr(w) \/ IoPanic(w)
    /\ UNCHANGED <<configVars, payloadVars, statsVars, callVars, extraVars, signal, chan,
                   collectorVars, launcherVars, nextid, harnessVars>>

\* The locals of an iteration go out of scope.
Forget(w) ==
    /\ op' = [op EXCEPT ![w] = "-"]
    /\ fname' = [fname EXCEPT ![w] = NoKey]
    /\ size' = [size EXCEPT ![w] = 0]
    /\ outcome' = [outcome EXCEPT ![w] = "None"]

\* signal.try_recv(): Ok or Disconnected mean stop, Empty means go on.
TryRecvStops(sig) == sig \in {"sent", "dropped"}

\* should_stop(), called once the operation has returned Some or Err.
WorkerShouldStop(w) ==
    /\ pc[w] = "check"
    /\ IF TryRecvStops(signal[w])
       THEN /\ pc' = [pc EXCEPT ![w] = "stopped"]
            /\ signal' = [signal EXCEPT ![w] = IF @ = "sent" THEN "taken" ELSE @]
            /\ Forget(w)
       ELSE /\ pc' = [pc EXCEPT ![w] = "send"]
            /\ UNCHANGED <<signal, op, fname, size, outcome>>
    /\ UNCHANGED <<configVars, payloadVars, statsVars, callVars, extraVars, items, chan, collectorVars, launcherVars, nextid,
                   harnessVars>>

\* What the worker puts on the channel: Ok(WorkerInfo) or Err(ChumError).
Message(w) ==
    IF outcome[w] = "Completed"
    THEN [ok |-> TRUE, op |-> op[w], size |-> size[w], id |-> w]
    ELSE [ok |-> FALSE, op |-> "-", size |-> 0, id |-> 0]

\* send_info(): tx.send, and a panic when the receiver is gone.
WorkerSendInfo(w) ==
    /\ pc[w] = "send"
    /\ IF cpc = "done"
       THEN /\ pc' = [pc EXCEPT ![w] = "panicked"]
            /\ UNCHANGED chan
       ELSE /\ Len(chan) < MaxChan
            /\ chan' = Append(chan, Message(w))
            /\ pc' = [pc EXCEPT ![w] = "sleep"]
    /\ Forget(w)
    /\ UNCHANGED <<configVars, payloadVars, statsVars, callVars, extraVars, items, signal, collectorVars, launcherVars, nextid,
                   harnessVars>>

\* sleep(), the end of one iteration.
WorkerSleep(w) ==
    /\ pc[w] = "sleep"
    /\ pc' = [pc EXCEPT ![w] = "loop"]
    /\ Forget(w)
    /\ UNCHANGED <<configVars, payloadVars, statsVars, callVars, extraVars, items, signal, chan, collectorVars, launcherVars, nextid,
                   harnessVars>>

WorkerStep(w) ==
    \/ WorkerBegin(w)
    \/ WorkerIo(w)
    \/ WorkerShouldStop(w)
    \/ WorkerSendInfo(w)
    \/ WorkerSleep(w)

(* --------------------------- Stats Collector --------------------------- *)
\* The WorkerInfo the collector accounts for a message: an Err becomes an
\* Error-kind record of size 0.
WorkerInfoOf(msg) ==
    IF msg.ok THEN [op |-> msg.op, size |-> msg.size, id |-> msg.id]
    ELSE [op |-> "error", size |-> 0, id |-> 0]

\* A slip in collect_stats: the bytes of every record are counted.
BytesOfAnyOp(wr) == wr.size

\* What one drained record adds to total_bytes_written.
WrittenBytes(wr) == IF wr.op = "w" THEN wr.size ELSE 0

\* A slip in collect_stats: a cap of zero is taken for a cap already met.
CapOfZeroMet(dc, total) == total >= dc

\* A slip in collect_stats: the cap must be exceeded, not met.
CapExceeded(dc, total) == dc > 0 /\ total > dc

\* Whether collect_stats returns at the end of a wake.
CapReached(dc, total) == dc > 0 /\ total >= dc

\* thread::sleep(interval) returns.
CollectorWake ==
    /\ lpc # "populate"
    /\ cpc = "sleep"
    /\ cpc' = "drain"
    /\ UNCHANGED <<configVars, payloadVars, statsVars, callVars, extraVars, items, workerVars, signal, chan,
                   total_bytes_written, launcherVars, nextid, harnessVars>>

\* One turn of `for res in rx.try_iter()`.
CollectorRecv ==
    /\ cpc = "drain"
    /\ chan # <<>>
    /\ LET wr == WorkerInfoOf(Head(chan))
       IN  /\ total_bytes_written + WrittenBytes(wr) <= MaxTotal
           /\ total_bytes_written' = total_bytes_written + WrittenBytes(wr)
    /\ chan' = Tail(chan)
    /\ UNCHANGED <<configVars, payloadVars, statsVars, callVars, extraVars, items, workerVars, signal, cpc, launcherVars, nextid,
                   harnessVars>>

\* try_iter() finds the channel empty: print, then test the data cap.
CollectorTick ==
    /\ cpc = "drain"
    /\ chan = <<>>
    /\ cpc' = IF CapReached(data_cap, total_bytes_written) THEN "done" ELSE "sleep"
    /\ UNCHANGED <<configVars, payloadVars, statsVars, callVars, extraVars, items, workerVars, signal, chan,
                   total_bytes_written, launcherVars, nextid, harnessVars>>

CollectorStep == CollectorWake \/ CollectorRecv \/ CollectorTick

(* ------------------------------ Launcher ------------------------------ *)
\* populate_queue: one line of the read list is inserted into the queue.
Populate(k) ==
    /\ lpc = "populate"
    /\ nlines < MaxReadList
    /\ \E r \in GenRange(items, mode) :
          items' = QueueInsert(items, cap, mode, r, k)
    /\ nlines' = nlines + 1
    /\ UNCHANGED <<configVars, payloadVars, statsVars, callVars, extraVars, workerVars, signal, chan, collectorVars, lpc,
                   nextid, harnessVars>>

\* The workers and the stats thread are spawned.
Spawn ==
    /\ lpc = "populate"
    /\ lpc' = "running"
    /\ UNCHANGED <<configVars, payloadVars, statsVars, callVars, extraVars, items, workerVars, signal, chan, collectorVars,
                   nlines, nextid, harnessVars>>

\* The stats thread has returned and its join completes.
JoinStats ==
    /\ lpc = "running"
    /\ cpc = "done"
    /\ lpc' = "signal"
    /\ UNCHANGED <<configVars, payloadVars, statsVars, callVars, extraVars, items, workerVars, signal, chan, collectorVars,
                   nlines, nextid, harnessVars>>

\* The launcher sends worker w its stop signal.
SendStop(w) ==
    /\ lpc = "signal"
    /\ signal[w] = "empty"
    /\ signal' = [signal EXCEPT ![w] = "sent"]
    /\ UNCHANGED <<configVars, payloadVars, statsVars, callVars, extraVars, items, workerVars, chan, collectorVars,
                   launcherVars, nextid, harnessVars>>

\* Every worker thread has ended and the joins return.
JoinWorkers ==
    /\ lpc = "signal"
    /\ \A w \in Workers : signal[w] # "empty"
    /\ \A w \in Workers : pc[w] \in {"stopped", "panicked"}
    /\ lpc' = "exited"
    /\ UNCHANGED <<configVars, payloadVars, statsVars, callVars, extraVars, items, workerVars, signal, chan, collectorVars,
                   nlines, nextid, harnessVars>>

LauncherStep ==
    \/ \E k \in 1..MaxReadList : Populate(k)
    \/ Spawn
    \/ JoinStats
    \/ \E w \in Workers : SendStop(w)
    \/ JoinWorkers

(* ---------------------------- specifications --------------------------- *)
\* Any queue mode and capacity, any backend with read_queue set or clear, and
\* the data cap either off or set to what the writes of a run amount to.
Init ==
    \E m \in QueueModes, c \in 0..MaxCap, p \in Protocols, rq \in BOOLEAN,
       dc \in {0, MaxWrites * MaxSize} :
        Setup(m, c, p, rq, Operators, dc) /\ NoPayload /\ NoStats /\ NoCall

Next ==
    \/ LauncherStep
    \/ \E w \in Workers : WorkerStep(w)
    \/ CollectorStep

Spec == Init /\ [][Next]_vars

(* ------------------- the Queue used on its own ------------------------ *)
\* A caller inserts key k.
QInsert(k) ==
    /\ Len(hist) < MaxInserts
    /\ \E r \in GenRange(items, mode) :
          items' = QueueInsert(items, cap, mode, r, k)
    /\ hist' = Append(hist, k)
    /\ qcall' = "insert" /\ qret' = NoKey
    /\ UNCHANGED <<configVars, payloadVars, statsVars, callVars, extraVars, workerVars, signal, chan, collectorVars,
                   launcherVars, nextid, takes>>

\* A slip in Queue::get: the sampled item is removed from the queue.
QGetTaking ==
    /\ \E r \in GenRange(items, mode) :
          /\ qret' = QueueGet(items, mode, r)
          /\ items' = IF QueueGet(items, mode, r) = NoKey THEN items
                      ELSE VecRemove(items, GetIndex(items, mode, r))
    /\ qcall' = "get"
    /\ UNCHANGED <<configVars, payloadVars, statsVars, callVars, extraVars, workerVars, signal, chan, collectorVars,
                   launcherVars, nextid, hist, takes>>

\* A caller samples the queue.
QGet ==
    /\ \E r \in GenRange(items, mode) : qret' = QueueGet(items, mode, r)
    /\ qcall' = "get"
    /\ UNCHANGED <<configVars, payloadVars, statsVars, callVars, extraVars, items, workerVars, signal, chan, collectorVars,
                   launcherVars, nextid, hist, takes>>

\* A caller takes an item from the queue.
QTake ==
    /\ \E r \in GenRange(items, mode) :
          /\ qret' = QueueRemoved(items, mode, r)
          /\ items' = QueueRemove(items, mode, r)
    /\ qcall' = "remove"
    /\ takes' = IF items = <<>> THEN takes ELSE takes + 1
    /\ UNCHANGED <<configVars, payloadVars, statsVars, callVars, extraVars, workerVars, signal, chan, collectorVars,
                   launcherVars, nextid, hist>>

QInit ==
    \E m \in QueueModes, c \in 0..MaxCap :
        Setup(m, c, "fs", TRUE, Operators, 0) /\ NoPayload /\ NoStats /\ NoCall

QNext ==
    \/ \E k \in 1..MaxQKeys : QInsert(k)
    \/ QGet
    \/ QTake

QSpec == QInit /\ [][QNext]_vars

(* ------------------ a worker and whoever holds its Sender -------------- *)
\* The holder of the stop channel's Sender sends () to worker w.
StopSignal(w) ==
    /\ lpc = "running"
    /\ signal[w] = "empty"
    /\ signal' = [signal EXCEPT ![w] = "sent"]
    /\ UNCHANGED <<configVars, payloadVars, statsVars, callVars, extraVars, items, workerVars, chan, collectorVars,
                   launcherVars, nextid, harnessVars>>

\* The holder of the stop channel's Sender drops it.
DropSender(w) ==
    /\ lpc = "running"
    /\ signal[w] = "empty"
    /\ signal' = [signal EXCEPT ![w] = "dropped"]
    /\ UNCHANGED <<configVars, payloadVars, statsVars, callVars, extraVars, items, workerVars, chan, collectorVars,
                   launcherVars, nextid, harnessVars>>

\* Workloads that never write: with no data cap the run ends only when the
\* holder of the Senders says so.
WInit ==
    \E m \in QueueModes, o \in (SUBSET {"r", "d"}) \ {{}} :
        Setup(m, 1, "fs", TRUE, o, 0) /\ NoPayload /\ NoStats /\ NoCall

WNext ==
    \/ \E k \in 1..MaxReadList : Populate(k)
    \/ Spawn
    \/ \E w \in Workers : WorkerStep(w)
    \/ CollectorStep
    \/ \E w \in Workers : StopSignal(w) \/ DropSender(w)

\* Every thread keeps being scheduled, and the uniform draw of the operator
\* picks each entry of the workload again and again.
WFair ==
    /\ WF_vars(Spawn)
    /\ WF_vars(CollectorStep)
    /\ \A w \in Workers : SF_vars(WorkerStep(w))
    /\ \A w \in Workers : \A o \in Operators : SF_vars(WorkerCall(w, o))

FairWorkerSpec == WInit /\ [][WNext]_vars /\ WFair

(* ------------------- the payload a write() builds ---------------------- *)
\* The sizes a distribution may hold: whole multiples of the pre-generated
\* buffer, and sizes that leave a remainder.
PayloadSizes ==
    {k * BufLen + d : k \in 0..MaxChunks, d \in 0..MaxRem}
        \cup {k * BufLen - 1 : k \in 1..MaxChunks}

\* write() has drawn its size and starts with an empty payload.
StartPayload(s) ==
    wsize = s /\ bytes_to_go = s /\ buf = 0 /\ bpc = "fill"

\* One turn of the while loop with a whole buffer still to go.
FillChunk ==
    /\ bpc = "fill"
    /\ bytes_to_go > 0
    /\ ~(bytes_to_go < BufLen)
    /\ buf' = buf + BufLen
    /\ bytes_to_go' = bytes_to_go - BufLen
    /\ UNCHANGED <<wsize, bpc>>
    /\ UNCHANGED <<configVars, statsVars, callVars, extraVars, items, workerVars, signal, chan,
                   collectorVars, launcherVars, nextid, harnessVars>>

\* The last turn: the tail &self.buf[0..bytes_to_go - 1] is appended and the
\* loop is left.
FillTail ==
    /\ bpc = "fill"
    /\ bytes_to_go > 0
    /\ bytes_to_go < BufLen
    /\ buf' = buf + (bytes_to_go - 1)
    /\ bpc' = "built"
    /\ UNCHANGED <<wsize, bytes_to_go>>
    /\ UNCHANGED <<configVars, statsVars, callVars, extraVars, items, workerVars, signal, chan,
                   collectorVars, launcherVars, nextid, harnessVars>>

\* The loop condition bytes_to_go > 0 fails.
FillDone ==
    /\ bpc = "fill"
    /\ bytes_to_go = 0
    /\ bpc' = "built"
    /\ UNCHANGED <<wsize, bytes_to_go, buf>>
    /\ UNCHANGED <<configVars, statsVars, callVars, extraVars, items, workerVars, signal, chan,
                   collectorVars, launcherVars, nextid, harnessVars>>

PInit ==
    \E s \in PayloadSizes :
        Setup("lru", 1, "fs", TRUE, {"w"}, 0) /\ StartPayload(s) /\ NoStats /\ NoCall

PNext == FillChunk \/ FillTail \/ FillDone

PayloadSpec == PInit /\ [][PNext]_vars

(* ------------------------ collect_stats' tiers ------------------------- *)
\* OutputFormat: Human, HumanVerbose, Tabular.
Formats == {"h", "v", "t"}

\* Operation, the key of the three maps.
OpKinds == {"r", "w", "d", "error"}

\* (size, ttfb, rtt) of the results fed to the collector.
Timings == {<<1, 1, 2>>, <<2, 3, 5>>}

MaxDrained == 3
MaxElapsed == 2

\* What a worker can send: Ok(WorkerInfo) or Err(e).
StatsResults ==
    {[ok |-> TRUE, op |-> o, id |-> w, size |-> t[1], ttfb |-> t[2], rtt |-> t[3]] :
        o \in Operators, w \in Workers, t \in Timings}
    \cup {[ok |-> FALSE, op |-> o, id |-> w, size |-> 0, ttfb |-> 0, rtt |-> 0] :
        o \in Operators, w \in Workers}

\* The match on res: an Err becomes an Error record of the collector's own
\* thread with size, ttfb and rtt of zero.
TimedInfoOf(res) ==
    IF res.ok
    THEN [op |-> res.op, id |-> res.id, size |-> res.size, ttfb |-> res.ttfb,
          rtt |-> res.rtt]
    ELSE [op |-> "error", id |-> 0, size |-> 0, ttfb |-> 0, rtt |-> 0]

\* WorkerStat::new and WorkerStat::add_result.
ZeroStat == [objs |-> 0, data |-> 0, ttfb |-> 0, rtt |-> 0]
AddResult(st, wr) ==
    [objs |-> st.objs + 1, data |-> st.data + wr.size, ttfb |-> st.ttfb + wr.ttfb,
     rtt |-> st.rtt + wr.rtt]

\* HashMap::new, entry(k).or_insert_with(v0) and get(k) with a fallback.
NewMap == <<>>
OrInsert(m, k, v0) ==
    IF k \in DOMAIN m THEN m
    ELSE [x \in DOMAIN m \cup {k} |-> IF x = k THEN v0 ELSE m[x]]
GetOr(m, k, v0) == IF k \in DOMAIN m THEN m[k] ELSE v0

\* A slip in collect_stats: an interval map declared outside the loop.
KeptTier(old) == old

\* The interval maps a turn of the loop starts with.
FreshTier(old) == NewMap

\* bytes_to_human: whole mebibytes.
BytesToHuman(bytes) == (bytes \div 1024) \div 1024

\* Integer division as the program performs it: dividing by zero panics.
DivByZero == -1
Div(a, b) == IF b = 0 THEN DivByZero ELSE a \div b

\* serialize_relative, serialize_absolute and the "{} errors" line.
SerializeRelative(t, o, i, st) ==
    [tier |-> t, op |-> o, id |-> i, kind |-> "stats", objs |-> st.objs,
     mb |-> BytesToHuman(st.data), a |-> Div(st.ttfb, st.objs), b |-> Div(st.rtt, st.objs)]
SerializeAbsolute(t, o, i, st, d) ==
    [tier |-> t, op |-> o, id |-> i, kind |-> "stats", objs |-> st.objs,
     mb |-> BytesToHuman(st.data), a |-> Div(st.objs, d),
     b |-> IF d = 0 THEN DivByZero ELSE BytesToHuman(Div(st.data, d))]
ErrorsLine(t, o, i, st) ==
    [tier |-> t, op |-> o, id |-> i, kind |-> "errors", objs |-> st.objs,
     mb |-> 0, a |-> 0, b |-> 0]
IdleLine(t, o) ==
    [tier |-> t, op |-> o, id |-> 0, kind |-> "idle", objs |-> 0, mb |-> 0, a |-> 0, b |-> 0]

\* print_human: the lines of the three tiers. A thread's line carries the
\* thread where the program prints its position in the map's iteration.
PrintHuman(f, stats, ticks, agg, d) ==
    (IF f = "v"
     THEN UNION {{IF o = "error" THEN ErrorsLine("thread", o, i, stats[o][i])
                  ELSE SerializeRelative("thread", o, i, stats[o][i]) :
                    i \in {j \in DOMAIN stats[o] : stats[o][j].objs # 0}} :
                 o \in DOMAIN stats}
     ELSE {})
    \cup {IF ticks[o].objs = 0 THEN IdleLine("tick", o)
          ELSE IF o = "error" THEN ErrorsLine("tick", o, 0, ticks[o])
          ELSE SerializeRelative("tick", o, 0, ticks[o]) : o \in DOMAIN ticks}
    \cup {IF agg[o].objs = 0 THEN IdleLine("total", o)
          ELSE IF o = "error" THEN ErrorsLine("total", o, 0, agg[o])
          ELSE SerializeAbsolute("total", o, 0, agg[o], d) : o \in DOMAIN agg}

\* print_tabular: the fields after the timestamp.
PrintTabular(ticks) ==
    LET reader_stats == GetOr(ticks, "r", ZeroStat)
        writer_stats == GetOr(ticks, "w", ZeroStat)
        error_stats == GetOr(ticks, "error", ZeroStat)
    IN  [robjs |-> reader_stats.objs, wobjs |-> writer_stats.objs,
         rdata |-> reader_stats.data, wdata |-> writer_stats.data,
         rttfb |-> reader_stats.ttfb, wttfb |-> writer_stats.ttfb,
         rrtt |-> reader_stats.rtt, wrtt |-> writer_stats.rtt,
         errs |-> error_stats.objs]

\* A slip in collect_stats: the operation's map of threads is inserted anew
\* for every result.
AddToNewThreadMap(stats, wr) ==
    [OrInsert(stats, wr.op, NewMap) EXCEPT
        ![wr.op] = [OrInsert(NewMap, wr.id, ZeroStat) EXCEPT
                       ![wr.id] = AddResult(@, wr)]]

\* The per-thread tier takes a result: the operation's map of threads and
\* the thread's WorkerStat are created on first use.
AddToThread(stats, wr) ==
    [OrInsert(stats, wr.op, NewMap) EXCEPT
        ![wr.op] = [OrInsert(GetOr(stats, wr.op, NewMap), wr.id, ZeroStat) EXCEPT
                       ![wr.id] = AddResult(@, wr)]]

\* thread::sleep(interval) returns and the turn's maps are created.
StatsWake ==
    /\ cpc = "sleep"
    /\ cpc' = "drain"
    /\ op_ticks' = FreshTier(op_ticks)
    /\ op_stats' = FreshTier(op_stats)
    /\ wake_from' = Len(drained)
    /\ UNCHANGED <<format, op_agg, out, tab, drained, total_bytes_written>>
    /\ UNCHANGED <<configVars, payloadVars, callVars, extraVars, items, workerVars, signal, chan,
                   launcherVars, nextid, harnessVars>>

\* One turn of `for res in rx.try_iter()` with res the next result.
StatsRecv(res) ==
    /\ cpc = "drain"
    /\ Len(drained) < MaxDrained
    /\ LET wr == TimedInfoOf(res)
       IN  /\ total_bytes_written' = total_bytes_written + WrittenBytes(wr)
           /\ op_stats' = AddToThread(op_stats, wr)
           /\ op_ticks' = [OrInsert(op_ticks, wr.op, ZeroStat) EXCEPT
                              ![wr.op] = AddResult(@, wr)]
           /\ op_agg' = [OrInsert(op_agg, wr.op, ZeroStat) EXCEPT
                              ![wr.op] = AddResult(@, wr)]
           /\ drained' = Append(drained, wr)
    /\ UNCHANGED <<format, out, tab, wake_from, cpc>>
    /\ UNCHANGED <<configVars, payloadVars, callVars, extraVars, items, workerVars, signal, chan,
                   launcherVars, nextid, harnessVars>>

\* try_iter() finds the channel empty: print in the chosen format after d
\* seconds of run time, then test the data cap.
StatsTick(d) ==
    /\ cpc = "drain"
    /\ out' = IF format \in {"h", "v"}
              THEN PrintHuman(format, op_stats, op_ticks, op_agg, d) ELSE {}
    /\ tab' = IF format = "t" THEN PrintTabular(op_ticks) ELSE <<>>
    /\ cpc' = IF CapReached(data_cap, total_bytes_written) THEN "done" ELSE "sleep"
    /\ UNCHANGED <<format, op_stats, op_ticks, op_agg, drained, wake_from,
                   total_bytes_written>>
    /\ UNCHANGED <<configVars, payloadVars, callVars, extraVars, items, workerVars, signal, chan,
                   launcherVars, nextid, harnessVars>>

\* collect_stats in any output format, with no data cap or a cap of three
\* bytes.
StatsInit ==
    \E f \in Formats, dc \in {0, MaxDrained} :
        /\ Setup("lru", 1, "fs", TRUE, Operators, dc) /\ NoPayload /\ NoCall
        /\ format = f
        /\ op_stats = NewMap /\ op_ticks = NewMap /\ op_agg = NewMap
        /\ out = {} /\ tab = <<>> /\ drained = <<>> /\ wake_from = 0

StatsNext ==
    \/ StatsWake
    \/ \E res \in StatsResults : StatsRecv(res)
    \/ \E d \in 1..MaxElapsed : StatsTick(d)

StatsSpec == StatsInit /\ [][StatsNext]_vars

(* ----------------------------- parse_human ----------------------------- *)
\* A string is the sequence of its characters. "d3" stands for a decimal
\* digit outside ASCII (U+0663), which the regex class \d matches.
AsciiDigits == {"0", "1", "2", "3", "4", "5", "6", "7", "8", "9"}
UnicodeDigits == AsciiDigits \cup {"d3"}
UnitLetters == {"K", "M", "G", "T", "k", "m", "g", "t"}
DigitVal(ch) ==
    CASE ch = "0" -> 0 [] ch = "1" -> 1 [] ch = "2" -> 2 [] ch = "3" -> 3
      [] ch = "4" -> 4 [] ch = "5" -> 5 [] ch = "6" -> 6 [] ch = "7" -> 7
      [] ch = "8" -> 8 [] ch = "9" -> 9

\* The characters short arguments are made of, their greatest length, and
\* the long arguments around the limits of u64.
MaxStr == 3
HumanChars == {"0", "1", "4", "k", "M", "G", "t", "b", "-", "d3"}
StringsUpTo(alphabet, n) == UNION {[1..k -> alphabet] : k \in 0..n}
HumanInputs ==
    StringsUpTo(HumanChars, MaxStr) \cup
    {<<"1", "6", "7", "7", "7", "2", "1", "5", "T">>,
     <<"1", "6", "7", "7", "7", "2", "1", "6", "T">>,
     <<"1", "0", "0", "0", "0", "0", "0", "0", "0", "0", "0", "T">>,
     <<"1", "8", "4", "4", "6", "7", "4", "4", "0", "7", "3", "7", "0", "9", "5", "5", "1", "6", "1", "5", "k">>,
     <<"1", "8", "4", "4", "6", "7", "4", "4", "0", "7", "3", "7", "0", "9", "5", "5", "1", "6", "1", "6", "k">>,
     <<"9", "9", "9", "9", "9", "9", "9", "9", "9", "9", "9", "9", "9", "9", "9", "9", "9", "9", "9", "9", "k">>,
     <<"1", "8", "0", "1", "4", "3", "9", "8", "5", "0", "9", "4", "8", "1", "9", "8", "4", "k">>}

\* A u64 or a wider intermediate value, as its digits in base 1024 with the
\* least significant first and no leading zero digit; zero is <<>>.
Limb == 1024
TopLimbs == 7
TopLimbRange == 16
FitsU64(x) == Len(x) < TopLimbs \/ (Len(x) = TopLimbs /\ x[TopLimbs] < TopLimbRange)
RECURSIVE MulAdd(_, _, _)
MulAdd(x, m, carry) ==
    IF x = <<>>
    THEN IF carry = 0 THEN <<>> ELSE <<carry % Limb>> \o MulAdd(<<>>, m, carry \div Limb)
    ELSE LET v == x[1] * m + carry
         IN  <<v % Limb>> \o MulAdd(Tail(x), m, v \div Limb)
RECURSIVE Strip(_)
Strip(x) ==
    IF x = <<>> \/ x[Len(x)] # 0 THEN x ELSE Strip(SubSeq(x, 1, Len(x) - 1))

\* x * 1024^e without bound, and the same reduced modulo 2^64.
TimesUnit(x, e) == IF x = <<>> THEN <<>> ELSE [i \in 1..e |-> 0] \o x
WrapU64(x) ==
    IF Len(x) < TopLimbs THEN x
    ELSE Strip(SubSeq(x, 1, TopLimbs - 1) \o <<x[TopLimbs] % TopLimbRange>>)

\* Regex ^\d+[KMGTkmgt]$ .
MatchesUnitRegex(val) ==
    /\ Len(val) >= 2
    /\ \A i \in 1..(Len(val) - 1) : val[i] \in UnicodeDigits
    /\ val[Len(val)] \in UnitLetters

\* u64::from_str_radix(s, 10) for a non-empty s without a sign: the value,
\* or the text of the ParseIntError.
RECURSIVE FromStrRadix(_, _)
FromStrRadix(s, acc) ==
    IF s = <<>> THEN [kind |-> "ok", val |-> acc, msg |-> ""]
    ELSE IF Head(s) \notin AsciiDigits
    THEN [kind |-> "err", val |-> <<>>, msg |-> "invalid digit found in string"]
    ELSE LET next == MulAdd(acc, 10, DigitVal(Head(s)))
         IN  IF ~FitsU64(next)
             THEN [kind |-> "err", val |-> <<>>,
                   msg |-> "number too large to fit in target type"]
             ELSE FromStrRadix(Tail(s), next)

\* The power of 1024 a unit letter stands for: k, m, g, t.
UnitPower(ch) ==
    CASE ch \in {"k", "K"} -> 1 [] ch \in {"m", "M"} -> 2
      [] ch \in {"g", "G"} -> 3 [] ch \in {"t", "T"} -> 4

\* A slip in parse_human: checked_mul with the overflow turned into an error.
CheckedMul(x, e, checks) ==
    IF FitsU64(TimesUnit(x, e)) THEN [kind |-> "ok", val |-> TimesUnit(x, e), msg |-> ""]
    ELSE [kind |-> "err", val |-> <<>>, msg |-> "attempt to multiply with overflow"]

\* val_as_bytes * k (m, g, t): the operator * of u64, which traps an overflow
\* in a build with overflow checks and wraps in a build without.
UncheckedMul(x, e, checks) ==
    IF FitsU64(TimesUnit(x, e)) THEN [kind |-> "ok", val |-> TimesUnit(x, e), msg |-> ""]
    ELSE IF checks
    THEN [kind |-> "panic", val |-> <<>>, msg |-> "attempt to multiply with overflow"]
    ELSE [kind |-> "ok", val |-> WrapU64(TimesUnit(x, e)), msg |-> ""]

UnitSuffixError ==
    [kind |-> "err", val |-> <<>>,
     msg |-> "provided value must be a positive number with a unit suffix"]

parse_human(val, checks) ==
    IF val = <<"0">> THEN [kind |-> "ok", val |-> <<>>, msg |-> ""]
    ELSE IF MatchesUnitRegex(val)
    THEN LET first == FromStrRadix(SubSeq(val, 1, Len(val) - 1), <<>>)
         IN  IF first.kind = "err" THEN first
             ELSE UncheckedMul(first.val, UnitPower(val[Len(val)]), checks)
    ELSE UnitSuffixError

\* A call of parse_human returns or panics.
ParseHumanCall ==
    /\ ret.kind = "none"
    /\ ret' = parse_human(arg, overflow_checks)
    /\ UNCHANGED <<arg, overflow_checks>>
    /\ UNCHANGED <<configVars, payloadVars, statsVars, extraVars, items, workerVars, signal, chan,
                   collectorVars, launcherVars, nextid, harnessVars>>

\* Any argument, in a build with or without overflow checks.
HumanInit ==
    \E s \in HumanInputs, b \in BOOLEAN :
        /\ Setup("lru", 1, "fs", TRUE, Operators, 0) /\ NoPayload /\ NoStats
        /\ arg = s /\ ret = [kind |-> "none"] /\ overflow_checks = b

HumanNext == ParseHumanCall

HumanSpec == HumanInit /\ [][HumanNext]_vars

(* ------------------------- expand_distribution ------------------------- *)
\* The characters short arguments are made of, their greatest length, and
\* some longer arguments.
MaxDistrStr == 5
DistrChars == {"r", "w", "0", "2", "+", ":", ","}
DistrInputs ==
    StringsUpTo(DistrChars, MaxDistrStr) \cup
    {<<"r", ":", "3", ",", "w", ":", "1">>,
     <<"1", ":", "2", ",", "2", ":", "2", ",", "3", ":", "1">>,
     <<"r", ":", "4", "2", "9", "4", "9", "6", "7", "2", "9", "6">>,
     <<"r", ":", "2", "2", ",", "w">>}

\* str::split(sep): the pieces between the separators, empty ones included.
RECURSIVE Split(_, _)
Split(s, sep) ==
    IF \A i \in DOMAIN s : s[i] # sep THEN <<s>>
    ELSE LET at == CHOOSE i \in DOMAIN s :
                      s[i] = sep /\ \A j \in 1..(i - 1) : s[j] # sep
         IN  <<SubSeq(s, 1, at - 1)>> \o Split(SubSeq(s, at + 1, Len(s)), sep)

\* str::parse::<u32>(): an optional '+', then one or more ASCII digits whose
\* value is at most 4294967295 (429496729 * 10 + 5); -1 stands for Err.
ParseErr == -1
MaxU32Tenth == 429496729
MaxU32LastDigit == 5
RECURSIVE ParseDigits(_, _)
ParseDigits(s, acc) ==
    IF s = <<>> THEN acc
    ELSE IF Head(s) \notin AsciiDigits THEN ParseErr
    ELSE IF acc > MaxU32Tenth \/ (acc = MaxU32Tenth /\ DigitVal(Head(s)) > MaxU32LastDigit)
    THEN ParseErr
    ELSE ParseDigits(Tail(s), acc * 10 + DigitVal(Head(s)))
ParseU32(s) ==
    LET digits == IF s # <<>> /\ Head(s) = "+" THEN Tail(s) ELSE s
    IN  IF digits = <<>> THEN ParseErr ELSE ParseDigits(digits, 0)

\* A slip in expand_distribution: the range 0..=n in place of 0..n.
PushTimesInclusive(vec, x, n) == vec \o [i \in 1..(n + 1) |-> x]

\* for _ in 0..n { gen_distr.push(x) }
PushTimes(vec, x, n) == vec \o [i \in 1..n |-> x]

\* The loop over the tokens with gen_distr built so far; the first bad token
\* ends the call with its error.
RECURSIVE ExpandTokens(_, _)
ExpandTokens(toks, gen_distr) ==
    IF toks = <<>> THEN [kind |-> "ok", val |-> gen_distr, msg |-> ""]
    ELSE LET tok == Split(Head(toks), ":")
         IN  IF Len(tok) = 1 THEN ExpandTokens(Tail(toks), Append(gen_distr, tok[1]))
             ELSE IF Len(tok) = 2
             THEN IF ParseU32(tok[2]) = ParseErr
                  THEN [kind |-> "err", val |-> tok[2],
                        msg |-> "failed to parse as a number"]
                  ELSE ExpandTokens(Tail(toks),
                                    PushTimes(gen_distr, tok[1], ParseU32(tok[2])))
             ELSE [kind |-> "err", val |-> Head(toks),
                   msg |-> "too many multiples in token"]

expand_distribution(dstr) == ExpandTokens(Split(dstr, ","), <<>>)

\* A call of expand_distribution returns.
ExpandCall ==
    /\ ret.kind = "none"
    /\ ret' = expand_distribution(arg)
    /\ UNCHANGED <<arg, overflow_checks>>
    /\ UNCHANGED <<configVars, payloadVars, statsVars, extraVars, items, workerVars, signal, chan,
                   collectorVars, launcherVars, nextid, harnessVars>>

DistrInit ==
    \E s \in DistrInputs :
        /\ Setup("lru", 1, "fs", TRUE, Operators, 0) /\ NoPayload /\ NoStats
        /\ arg = s /\ ret = [kind |-> "none"] /\ overflow_checks = FALSE

DistrNext == ExpandCall

DistrSpec == DistrInit /\ [][DistrNext]_vars

(* ----------------------- the mutex and the target ---------------------- *)
\* Whether the MutexGuard of read() or delete() is still alive when the
\* request is issued: every backend takes it in a block of its own, or in a
\* single statement, that ends before the request.
HeldAcrossIoInRead(p, o) == o = "r"
GuardOutlivesScope(p, o) == FALSE

\* self.queue.lock().unwrap() of read() or delete() returns.
LockQueue(w, o) ==
    /\ lpc # "populate"
    /\ pc[w] = "loop"
    /\ o \in ops \cap {"r", "d"}
    /\ lock = 0
    /\ lock' = w
    /\ pc' = [pc EXCEPT ![w] = "locked"]
    /\ op' = [op EXCEPT ![w] = o]
    /\ UNCHANGED <<fname, size, outcome, items, nextid, deleted, opvec, setup_i>>
    /\ UNCHANGED <<configVars, payloadVars, statsVars, callVars, signal, chan,
                   collectorVars, launcherVars, harnessVars>>

\* The queue call inside the guard's block, and the end of the block.
QueueCall(w) ==
    /\ pc[w] = "locked"
    /\ \/ op[w] = "r" /\ BeginRead(w)
       \/ op[w] = "d" /\ BeginDelete(w)
    /\ lock' = IF pc'[w] = "io" /\ GuardOutlivesScope(protocol, op[w]) THEN w ELSE 0
    /\ UNCHANGED <<deleted, opvec, setup_i>>
    /\ UNCHANGED <<configVars, payloadVars, statsVars, callVars, signal, chan,
                   collectorVars, launcherVars, harnessVars>>

\* The request of the worker ends. A write that registers its key and a
\* failed delete that puts its key back lock the queue for that statement;
\* a completed delete has removed its object from the target.
TargetIo(w) ==
    /\ IoOk(w) \/ IoErr(w) \/ IoPanic(w)
    /\ lock \in {0, w}
    /\ lock' = 0
    /\ deleted' = IF op[w] = "d" /\ outcome'[w] = "Completed"
                  THEN deleted \cup {fname[w]} ELSE deleted
    /\ UNCHANGED <<opvec, setup_i>>
    /\ UNCHANGED <<configVars, payloadVars, statsVars, callVars, signal, chan,
                   collectorVars, launcherVars, nextid, harnessVars>>

TargetStep(w) ==
    \/ WorkerCall(w, "w")
    \/ \E o \in Operators : LockQueue(w, o)
    \/ QueueCall(w)
    \/ TargetIo(w)
    \/ WorkerShouldStop(w)
    \/ WorkerSendInfo(w)
    \/ WorkerSleep(w)

\* Any backend on a queue of capacity one or two, with no data cap.
TargetInit ==
    \E m \in QueueModes, c \in 1..MaxCap, p \in Protocols :
        Setup(m, c, p, TRUE, Operators, 0) /\ NoPayload /\ NoStats /\ NoCall

TargetNext ==
    \/ \E k \in 1..MaxReadList : Populate(k)
    \/ Spawn
    \/ \E w \in Workers : TargetStep(w)
    \/ CollectorStep

TargetSpec == TargetInit /\ [][TargetNext]_vars

(* ------------------------------- setup --------------------------------- *)
\* The --workload arguments a run is started with.
WorkloadInputs ==
    {<<"r">>,
     <<"w">>,
     <<"r", ",", "w">>,
     <<"w", ":", "3">>,
     <<"w", ":", "2", ",", "r">>,
     <<"r", ",", "w", ",", "d">>,
     <<"d", ":", "2", ",", "w">>}

\* Worker.ops: the workload as expand_distribution returns it, each entry
\* matched against "r", "w" and "d".
OpsOf(str) ==
    LET v == expand_distribution(str).val IN [i \in DOMAIN v |-> v[i][1]]

\* Whether an operator's setup() can return Err with this client: the
\* writer creates the bucket (S3) or the leading paths (Fs); the reader and
\* the deleter need no setup.
SetupCanFail(p, o) == o = "w" /\ p \in {"s3", "fs"}

\* A slip in work(): the Err of setup() is dropped and the loop entered.
SetupFailureIgnored(w) ==
    /\ pc' = [pc EXCEPT ![w] = "loop"]
    /\ UNCHANGED setup_i

\* if let Err(e) = op.setup(..) { panic!(..) }
SetupFailed(w) ==
    /\ pc' = [pc EXCEPT ![w] = "panicked"]
    /\ UNCHANGED setup_i

\* One turn of `for operator in &self.ops`: the entry's setup() returns
\* Ok, and after the last entry the loop begins; or it returns Err.
SetupTurn(w) ==
    /\ lpc # "populate"
    /\ pc[w] = "setup"
    /\ setup_i[w] <= Len(opvec)
    /\ \/ /\ setup_i' = [setup_i EXCEPT ![w] = @ + 1]
          /\ pc' = [pc EXCEPT ![w] = IF setup_i[w] = Len(opvec) THEN "loop" ELSE "setup"]
       \/ /\ SetupCanFail(protocol, opvec[setup_i[w]])
          /\ SetupFailed(w)
    /\ UNCHANGED <<op, fname, size, outcome, lock, deleted, opvec>>
    /\ UNCHANGED <<configVars, payloadVars, statsVars, callVars, items, signal, chan,
                   collectorVars, launcherVars, nextid, harnessVars>>

\* Workers that have not run their setup yet, on an S3 or WebDAV target.
SetupInit ==
    \E str \in WorkloadInputs, p \in {"s3", "webdav"} :
        /\ mode = "lru" /\ cap = 1 /\ items = <<>>
        /\ protocol = p /\ read_queue = TRUE /\ data_cap = 0
        /\ opvec = OpsOf(str)
        /\ ops = Range(opvec)
        /\ setup_i = [w \in Workers |-> 1]
        /\ pc = [w \in Workers |-> "setup"]
        /\ op = [w \in Workers |-> "-"]
        /\ fname = [w \in Workers |-> NoKey]
        /\ size = [w \in Workers |-> 0]
        /\ outcome = [w \in Workers |-> "None"]
        /\ signal = [w \in Workers |-> "empty"]
        /\ chan = <<>>
        /\ cpc = "sleep" /\ total_bytes_written = 0
        /\ lpc = "populate" /\ nlines = 0 /\ nextid = MaxReadList + 1
        /\ qcall = "new" /\ qret = NoKey /\ hist = <<>> /\ takes = 0
        /\ lock = 0 /\ deleted = {}
        /\ NoPayload /\ NoStats /\ NoCall

SetupNext ==
    \/ \E k \in 1..MaxReadList : Populate(k)
    \/ Spawn
    \/ \E w \in Workers : SetupTurn(w) \/ WorkerStep(w)
    \/ CollectorStep

SetupSpec == SetupInit /\ [][SetupNext]_vars

(* ----------------------------- queue mode ------------------------------ *)
\* The mode the launcher uses when --queue-mode is not given, and the one it
\* names when the given mode is unknown.
DEF_QUEUE_MODE == <<"r", "a", "n", "d">>

\* The values of --queue-mode tried: every string over the letters of the
\* three mode names, up to the length of the longest name.
MaxModeStr == 4
ModeChars == {"l", "r", "u", "m", "a", "n", "d"}
ModeInputs == StringsUpTo(ModeChars, MaxModeStr)

\* The launcher's match on the --queue-mode string: the QueueMode chosen and
\* the mode named on standard output, <<>> when nothing is printed.
qmode(str) ==
    IF str = <<"l", "r", "u">> THEN [kind |-> "ok", val |-> "lru", msg |-> <<>>]
    ELSE IF str = <<"m", "r", "u">> THEN [kind |-> "ok", val |-> "mru", msg |-> <<>>]
    ELSE IF str = <<"r", "a", "n", "d">> THEN [kind |-> "ok", val |-> "rand", msg |-> <<>>]
    ELSE [kind |-> "ok", val |-> "lru", msg |-> DEF_QUEUE_MODE]

\* The launcher matches the mode and creates the Queue in it.
QueueModeCall ==
    /\ ret.kind = "none"
    /\ ret' = qmode(arg)
    /\ mode' = ret'.val
    /\ UNCHANGED <<arg, overflow_checks>>
    /\ UNCHANGED <<cap, protocol, read_queue, ops, data_cap>>
    /\ UNCHANGED <<payloadVars, statsVars, extraVars, items, workerVars, signal, chan,
                   collectorVars, launcherVars, nextid, harnessVars>>

\* Any value of --queue-mode; the Queue is not created yet, so its mode
\* field holds nothing the call reads.
ModeInit ==
    \E s \in ModeInputs, m \in QueueModes :
        /\ Setup(m, 1, "fs", TRUE, Operators, 0) /\ NoPayload /\ NoStats
        /\ arg = s /\ ret = [kind |-> "none"] /\ overflow_checks = FALSE

ModeNext == QueueModeCall

ModeSpec == ModeInit /\ [][ModeNext]_vars

(* ------------------------- write-only workload ------------------------- *)
\* A write-only run against a backend whose writes always succeed: workload
\* "w", one object size, a data cap above zero.
WriteOnlyInit ==
    \E dc \in 1..MaxDataCap :
        Setup("lru", 1, "s3", FALSE, {"w"}, dc) /\ NoPayload /\ NoStats /\ NoCall

\* An iteration of a worker whose backend call always returns Ok.
WriteOnlyStep(w) ==
    \/ WorkerBegin(w)
    \/ /\ IoOk(w)
       /\ UNCHANGED <<configVars, payloadVars, statsVars, callVars, extraVars, signal, chan,
                      collectorVars, launcherVars, nextid, harnessVars>>
    \/ WorkerShouldStop(w)
    \/ WorkerSendInfo(w)
    \/ WorkerSleep(w)

WriteOnlyNext ==
    \/ LauncherStep
    \/ \E w \in Workers : WriteOnlyStep(w)
    \/ CollectorStep

WriteOnlySpec == WriteOnlyInit /\ [][WriteOnlyNext]_vars

(* ------------------------------- claims -------------------------------- *)
Min(a, b) == IF a < b THEN a ELSE b
LastN(s, n) == SubSeq(s, Len(s) - n + 1, Len(s))
Newest(q) == q[Len(q)]

\* C1: under every policy and every capacity Queue::new accepts, after
\* pre-population and any interleaving of the workers' inserts, samples, takes
\* and requeues, the queue never holds more items than its capacity.
C1_LengthWithinCapacity == Len(items) <= cap

\* C2: on every backend, a delete() that obtained key K and whose backend
\* delete failed returns with K in the queue again.
C2_FailedDeleteKeepsKey ==
    [][\A w \in Workers :
          (pc[w] = "io" /\ op[w] = "d" /\ pc'[w] = "check" /\ outcome'[w] = "Failed")
              => fname[w] \in Range(items')]_vars

\* C3: once a worker's stop signal has been sent, or its Sender dropped, the
\* worker eventually reaches Stopped, in every workload and queue state, also
\* when every operation it selects is Skipped.
C3_StopSignalStopsWorker ==
    \A w \in Workers : (signal[w] \in {"sent", "dropped"}) ~> (pc[w] = "stopped")

C5_FleetStopped ==
    lpc = "exited" => \A w \in Workers : pc[w] = "stopped"

C7_ReadOnNonEmptyQueueFetches ==
    [][\A w \in Workers :
          (pc[w] = "loop" /\ items # <<>> /\ op'[w] = "r")
              => (pc'[w] = "io" /\ outcome'[w] # "Skipped"
                  /\ fname'[w] \in Range(items))]_vars

\* C8: in mru mode a sample of a non-empty queue returns the most recently
\* inserted item still present (items are kept in insertion order).
C8_MruSampleReturnsNewest ==
    (qcall = "get" /\ mode = "mru" /\ items # <<>>) => qret = Newest(items)

\* C9: in mru mode a take removes and returns the most recently inserted
\* item, while an insert at capacity evicts the longest-resident one.
C9_MruTakeRemovesNewest ==
    [][/\ (mode = "mru" /\ items # <<>> /\ qcall' = "remove" /\ takes' = takes + 1)
          => (qret' = Newest(items) /\ items' = SubSeq(items, 1, Len(items) - 1))
       /\ (mode = "mru" /\ cap >= 1 /\ Len(items) = cap /\ Len(hist') = Len(hist) + 1)
          => items' = Append(Tail(items), Newest(hist'))]_vars

\* C10: in lru mode with capacity c >= 1, after n inserts and no removal the
\* queue holds exactly the last min(n, c) inserted keys, in insertion order.
C10_LruFifoWindow ==
    (mode = "lru" /\ cap >= 1 /\ takes = 0)
        => items = LastN(hist, Min(Len(hist), cap))

\* C10 witness: capacity 2 and three inserts A, B, C: A is gone, B and C remain.
C10_Witness ==
    /\ mode = "lru" /\ cap = 2 /\ takes = 0 /\ Len(hist) = 3
    /\ hist[1] \notin Range(items)
    /\ items = <<hist[2], hist[3]>>

\* C11: in lru mode a sample of a non-empty queue returns the longest-resident
\* item, the front of the insertion order, and a take removes and returns
\* that same item.
C11_LruSampleAndTakeOldest ==
    [][/\ (mode = "lru" /\ items # <<>> /\ qcall' = "get")
          => (qret' = Head(items) /\ items' = items)
       /\ (mode = "lru" /\ items # <<>> /\ qcall' = "remove" /\ takes' = takes + 1)
          => (qret' = Head(items) /\ items' = Tail(items))]_vars

\* C11 witness: A then B were inserted, A was sampled and then taken, and B
\* is what remains.
C11_Witness ==
    /\ mode = "lru" /\ cap = 2 /\ Len(hist) = 2 /\ hist[1] # hist[2]
    /\ qcall = "remove" /\ takes = 1
    /\ qret = hist[1]
    /\ items = <<hist[2]>>

\* C12: an insert below capacity appends the key, evicts nothing and makes the
\* queue one longer; an insert at capacity evicts exactly one item, appends
\* the key and leaves the length unchanged; either way the key is in the
\* queue afterwards.
C12_InsertLengthEffect ==
    [][Len(hist') = Len(hist) + 1 =>
          LET k == Newest(hist') IN
          /\ Len(items) < cap => items' = Append(items, k)
          /\ Len(items) = cap =>
                /\ Len(items') = Len(items)
                /\ \E i \in 1..Len(items) : items' = Append(VecRemove(items, i - 1), k)
          /\ k \in Range(items')]_vars

\* C13: under every policy a sample leaves the queue's contents, order and
\* length as they were.
C13_SampleLeavesQueue ==
    [][qcall' = "get" => items' = items]_vars

\* C13 witness: a sample has returned a key of a queue of two, and both keys
\* are still there.
C13_Witness ==
    /\ qcall = "get" /\ Len(items) = 2
    /\ qret # NoKey /\ qret \in Range(items)

\* C14: on every backend, when a delete() of key K completes successfully K
\* is no longer in the queue.
C14_CompletedDeleteRemovesKey ==
    [][\A w \in Workers :
          (pc[w] = "io" /\ op[w] = "d" /\ pc'[w] = "check" /\ outcome'[w] = "Completed")
              => fname[w] \notin Range(items')]_vars

\* C15: a write() that returns Failed has inserted nothing: the queue is as
\* it was and does not hold the key of the failed write.
C15_FailedWriteRegistersNothing ==
    [][\A w \in Workers :
          (pc[w] = "io" /\ op[w] = "w" /\ pc'[w] = "check" /\ outcome'[w] = "Failed")
              => (items' = items /\ fname[w] \notin Range(items'))]_vars

\* C15 witness: a write has returned Failed and its key is not in the queue.
C15_Witness ==
    \E w \in Workers :
        /\ pc[w] = "check" /\ op[w] = "w" /\ outcome[w] = "Failed"
        /\ fname[w] \notin Range(items)

\* C16 as stated: when a read() returns Failed the key it sampled is still in
\* the queue.
C16_FailedReadKeyStillQueued ==
    [][\A w \in Workers :
          (pc[w] = "io" /\ op[w] = "r" /\ pc'[w] = "check" /\ outcome'[w] = "Failed")
              => fname[w] \in Range(items')]_vars

\* C16 amended: a read() that returns Failed has itself changed nothing in
\* the queue, neither when it sampled its key nor when it failed; the key is
\* still there unless another worker's delete or eviction removed it.
C16_FailedReadLeavesQueue ==
    [][\A w \in Workers :
          /\ (pc[w] = "loop" /\ op'[w] = "r") => items' = items
          /\ (pc[w] = "io" /\ op[w] = "r" /\ pc'[w] = "check" /\ outcome'[w] = "Failed")
                => items' = items]_vars

\* C16 witness: a read has returned Failed and the key it sampled is in the
\* queue.
C16_Witness ==
    \E w \in Workers :
        /\ pc[w] = "check" /\ op[w] = "r" /\ outcome[w] = "Failed"
        /\ fname[w] \in Range(items)

\* C17: on every backend a successful write inserts its key if and only if
\* read_queue is set; with the flag clear it leaves the queue unchanged.
C17_WriteFeedsQueueIffFlag ==
    [][\A w \in Workers :
          (pc[w] = "io" /\ op[w] = "w" /\ pc'[w] = "check" /\ outcome'[w] = "Completed")
              => IF read_queue THEN fname[w] \in Range(items')
                 ELSE items' = items]_vars

\* C18: for every size s drawn from the distribution the payload a write
\* builds is exactly s bytes long, so the size reported equals the bytes
\* written.
C18_PayloadHasRequestedSize ==
    bpc = "built" => buf = wsize

\* C19: in one iteration a Skipped result publishes nothing, a Completed
\* result publishes exactly one success message for its operation, and a
\* Failed result publishes exactly one Error-kind message.
C19_OutcomeClassification ==
    [][\A w \in Workers :
          /\ (pc[w] = "loop" /\ outcome'[w] = "Skipped")
                => (chan' = chan /\ pc'[w] = "sleep")
          /\ (pc[w] = "check" /\ pc'[w] # "check") => pc'[w] = "send"
          /\ (pc[w] = "send" /\ pc'[w] # "send")
                => /\ Len(chan') = Len(chan) + 1
                   /\ SubSeq(chan', 1, Len(chan)) = chan
                   /\ Newest(chan').ok = (outcome[w] = "Completed")
                   /\ Newest(chan').ok => Newest(chan').op = op[w]]_vars

\* C20: every Completed or Failed outcome a backend call returns is published
\* and then consumed by the collector, also when the stop signal is sent
\* while the operation is in flight.
C20_EveryOutcomeAccounted ==
    /\ \A w \in Workers :
          (pc[w] = "check" /\ outcome[w] \in {"Completed", "Failed"})
              ~> (pc[w] = "sleep")
    /\ (chan # <<>>) ~> (chan = <<>>)

\* C21: a worker whose publish fails because the collector's end of the
\* channel is gone goes to Stopped; it does not panic.
C21_DisconnectStopsWorker ==
    [][\A w \in Workers :
          (pc[w] = "send" /\ cpc = "done" /\ pc'[w] # "send") => pc'[w] = "stopped"]_vars

\* C22: a backend I/O failure of a read, write or delete comes back as a
\* Failed outcome, and a worker with a Failed outcome, no stop signal and a
\* live collector publishes it and goes on to its next iteration.
C22_FailuresAreNotFatal ==
    [][\A w \in Workers :
          /\ (pc[w] = "io" /\ pc'[w] # "io") => pc'[w] = "check"
          /\ (pc[w] \in {"check", "send"} /\ outcome[w] = "Failed"
                /\ signal[w] = "empty" /\ cpc # "done")
                => pc'[w] \in {"check", "send", "sleep"}]_vars

\* C23: with a data cap of zero the collector never terminates, however many
\* bytes have been written.
C23_NoCapNoTermination ==
    data_cap = 0 => cpc # "done"

\* C23 witness: with no cap the collector has drained every write the bound
\* allows, has tested the cap and sleeps again.
C23_Witness ==
    /\ data_cap = 0
    /\ total_bytes_written = MaxWrites
    /\ cpc = "sleep"

\* Writes whose backend call has returned, and the fewest writes of s bytes
\* that carry c bytes.
WritesPerformed ==
    nextid - (MaxReadList + 1) - Cardinality({w \in Workers : pc[w] = "io"})
CeilDiv(c, s) == (c + s - 1) \div s

\* C30: in a write-only run with one object size s, a cap c > 0 and writes
\* that always succeed, a terminated collector has seen at least ceil(c/s)
\* writes, and the writes performed never exceed ceil(c/s) by more than one
\* per worker.
C30_WriteCountWindow ==
    \A s \in Distr :
        /\ cpc = "done" => WritesPerformed >= CeilDiv(data_cap, s)
        /\ WritesPerformed <= CeilDiv(data_cap, s) + NWorkers

\* The records of s from position n + 1 on, the sum of a field over records,
\* and the per-operation totals of a sequence of drained records.
Since(s, n) == SubSeq(s, n + 1, Len(s))
RECURSIVE SumField(_, _)
SumField(s, f) == IF s = <<>> THEN 0 ELSE Head(s)[f] + SumField(Tail(s), f)
TotalOf(s) ==
    [objs |-> Len(s), data |-> SumField(s, "size"), ttfb |-> SumField(s, "ttfb"),
     rtt |-> SumField(s, "rtt")]
OfOp(s, o) == SelectSeq(s, LAMBDA x : x.op = o)
OfThread(s, o, i) == SelectSeq(s, LAMBDA x : x.op = o /\ x.id = i)
Totals(s) == [o \in {s[n].op : n \in DOMAIN s} |-> TotalOf(OfOp(s, o))]
ThreadTotals(s) ==
    [o \in {s[n].op : n \in DOMAIN s} |->
        [i \in {s[n].id : n \in {k \in DOMAIN s : s[k].op = o}} |->
            TotalOf(OfThread(s, o, i))]]

\* C24: the lifetime map holds, per operation, the totals of every record
\* drained since start, while the per-interval and per-thread-per-interval
\* maps hold the totals of the records drained in the current wake only.
C24_TiersHoldTheirWindows ==
    /\ op_agg = Totals(drained)
    /\ op_ticks = Totals(Since(drained, wake_from))
    /\ op_stats = ThreadTotals(Since(drained, wake_from))

\* C24 witness: a second wake has ended; a worker read in the first wake
\* and in the second, so its lifetime bucket counts two and its interval
\* buckets one.
C24_Witness ==
    /\ cpc = "sleep"
    /\ wake_from = 1
    /\ Len(drained) = 2
    /\ drained[1].op = "r" /\ drained[2].op = "r" /\ drained[1].id = drained[2].id
    /\ op_agg["r"].objs = 2
    /\ op_ticks["r"].objs = 1

\* The records drained in the current wake, and whether the last print came
\* after every drained record.
ThisWake == Since(drained, wake_from)
Printed == cpc \in {"sleep", "done"} /\ drained # <<>>

\* C25: in a tabular line the read and write ttfb and rtt fields are the
\* interval's averages, the sum divided by the count, of that operation.
C25_TabularLatenciesAreAverages ==
    (format = "t" /\ Printed) =>
        LET r == TotalOf(OfOp(ThisWake, "r"))
            w == TotalOf(OfOp(ThisWake, "w"))
        IN  /\ r.objs > 0 => tab.rttfb = r.ttfb \div r.objs /\ tab.rrtt = r.rtt \div r.objs
            /\ w.objs > 0 => tab.wttfb = w.ttfb \div w.objs /\ tab.wrtt = w.rtt \div w.objs

\* C26: an average is computed only for a bucket with a nonzero count, and
\* an operation whose bucket of the interval is empty is reported as "no
\* activity" in the human formats and with counts of zero in the tabular one.
C26_EmptyBucketsReportNoActivity ==
    Printed =>
        /\ \A l \in out :
              l.kind = "stats" => l.objs # 0 /\ l.a # DivByZero /\ l.b # DivByZero
        /\ format \in {"h", "v"} =>
              \A o \in DOMAIN op_agg :
                  OfOp(ThisWake, o) = <<>> => IdleLine("tick", o) \in out
        /\ format = "t" =>
              /\ OfOp(ThisWake, "r") = <<>> => tab.robjs = 0
              /\ OfOp(ThisWake, "w") = <<>> => tab.wobjs = 0

\* An argument of the accepted form: ASCII decimal digits and one unit.
DigitsAndUnit(val) ==
    /\ Len(val) >= 2
    /\ \A i \in 1..(Len(val) - 1) : val[i] \in AsciiDigits
    /\ val[Len(val)] \in UnitLetters

\* The number a string of ASCII decimal digits denotes.
RECURSIVE Denotes(_)
Denotes(s) ==
    IF s = <<>> THEN <<>>
    ELSE MulAdd(Denotes(SubSeq(s, 1, Len(s) - 1)), 10, DigitVal(s[Len(s)]))

\* C27: parse_human gives 0 for "0", n * 1024^(1..4) for decimal digits n
\* followed by one unit letter, and the unit-suffix error for every other
\* string.
C27_ParseHumanGrammar ==
    ret.kind # "none" =>
        IF arg = <<"0">>
        THEN ret.kind = "ok" /\ ret.val = <<>>
        ELSE IF DigitsAndUnit(arg)
        THEN /\ ret.kind = "ok"
             /\ ret.val = TimesUnit(Denotes(SubSeq(arg, 1, Len(arg) - 1)),
                                    UnitPower(arg[Len(arg)]))
        ELSE ret = UnitSuffixError

\* The digits of arg denote a u64 whose product with the unit factor does
\* not fit in a u64, and the call has ended.
MulOverflows ==
    /\ ret.kind # "none"
    /\ DigitsAndUnit(arg)
    /\ FitsU64(Denotes(SubSeq(arg, 1, Len(arg) - 1)))
    /\ ~FitsU64(TimesUnit(Denotes(SubSeq(arg, 1, Len(arg) - 1)), UnitPower(arg[Len(arg)])))

Commas == {i \in DOMAIN arg : arg[i] = ","}
CutBefore(k) ==
    IF k = 1 THEN 0
    ELSE CHOOSE i \in Commas : Cardinality({j \in Commas : j < i}) = k - 2
CutAfter(k) ==
    IF k = Cardinality(Commas) + 1 THEN Len(arg) + 1
    ELSE CHOOSE i \in Commas : Cardinality({j \in Commas : j < i}) = k - 1
Token(k) == SubSeq(arg, CutBefore(k) + 1, CutAfter(k) - 1)
NTokens == Cardinality(Commas) + 1

\* The colons of a token, its name N and its weight text W.
Colons(tok) == {i \in DOMAIN tok : tok[i] = ":"}
NameOf(tok) ==
    IF Colons(tok) = {} THEN tok
    ELSE SubSeq(tok, 1, (CHOOSE i \in Colons(tok) : TRUE) - 1)
WeightText(tok) == SubSeq(tok, (CHOOSE i \in Colons(tok) : TRUE) + 1, Len(tok))

\* A weight text that is a number of the range of u32 (below 2^32, which is
\* 4 * 1024^3), and the number.
IsNumber(w) ==
    LET d == IF w # <<>> /\ w[1] = "+" THEN Tail(w) ELSE w
    IN  /\ d # <<>>
        /\ \A i \in DOMAIN d : d[i] \in AsciiDigits
        /\ Len(Denotes(d)) < 4 \/ (Len(Denotes(d)) = 4 /\ Denotes(d)[4] < 4)
RECURSIVE NumberOf(_)
NumberOf(w) ==
    IF w = <<>> THEN 0
    ELSE IF w[1] = "+" THEN NumberOf(Tail(w))
    ELSE NumberOf(SubSeq(w, 1, Len(w) - 1)) * 10 + DigitVal(w[Len(w)])
WeightOf(tok) == IF Colons(tok) = {} THEN 1 ELSE NumberOf(WeightText(tok))
GoodToken(tok) ==
    Cardinality(Colons(tok)) <= 1 /\ (Colons(tok) # {} => IsNumber(WeightText(tok)))

\* The copies of tokens k..NTokens laid end to end, and their number.
RECURSIVE CopiesFrom(_)
CopiesFrom(k) ==
    IF k > NTokens THEN <<>>
    ELSE [i \in 1..WeightOf(Token(k)) |-> NameOf(Token(k))] \o CopiesFrom(k + 1)
RECURSIVE WeightsFrom(_)
WeightsFrom(k) == IF k > NTokens THEN 0 ELSE WeightOf(Token(k)) + WeightsFrom(k + 1)

\* C29: expand_distribution turns each token N[:W] into W consecutive copies
\* of N, one copy when there is no weight, in input order, so that the
\* result is as long as the sum of the weights; a token with more than one
\* ':' or a weight that is not a number (of the range of u32) makes the call
\* return an error.
C29_WeightedExpansion ==
    ret.kind # "none" =>
        IF \A k \in 1..NTokens : GoodToken(Token(k))
        THEN /\ ret.kind = "ok"
             /\ ret.val = CopiesFrom(1)
             /\ Len(ret.val) = WeightsFrom(1)
        ELSE ret.kind = "err"

\* C29 witness: "r:3,w:1" has been expanded into three r and one w.
C29_Witness ==
    /\ arg = <<"r", ":", "3", ",", "w", ":", "1">>
    /\ ret.kind = "ok"
    /\ ret.val = <<<<"r">>, <<"r">>, <<"r">>, <<"w">>>>

\* C31: no worker holds the Queue's mutex while its backend request is in
\* flight: whoever holds the mutex is inside its queue call, so a request
\* that is slow or blocked keeps no other worker from the queue.
C31_NoLockAcrossIo ==
    /\ \A w \in Workers : pc[w] = "io" => lock # w
    /\ lock # 0 => pc[lock] = "locked"

\* C31 witness: worker 1's read is in flight while worker 2 is inside the
\* mutex for its own queue call.
C31_Witness ==
    /\ pc[1] = "io" /\ op[1] = "r"
    /\ pc[2] = "locked" /\ lock = 2

\* C32: while a delete of key K is in flight in one worker, no other
\* worker's read() or delete() obtains K from the Queue, for every backend.
C32_TakenKeyIsExclusive ==
    [][\A w1, w2 \in Workers :
          (w1 # w2 /\ pc[w1] = "io" /\ op[w1] = "d"
             /\ pc[w2] # "io" /\ pc'[w2] = "io" /\ op'[w2] \in {"r", "d"})
          => fname'[w2] # fname[w1]]_vars

\* C37: every key in the Queue names an object that has not been deleted
\* from the target.
C37_QueueKeysAreLive ==
    \A i \in DOMAIN items : items[i] \notin deleted

\* C38: the re-insertion of a failed delete keeps every key that was in the
\* Queue just before it.
C38_RequeueEvictsNothing ==
    [][\A w \in Workers :
          (pc[w] = "io" /\ op[w] = "d" /\ pc'[w] = "check" /\ outcome'[w] = "Failed")
          => Range(items) \subseteq Range(items')]_vars

\* Whether a worker's setup loop is still short of its end, and how often
\* it has called the setup of an operator.
SetupPending(w) == setup_i[w] <= Len(opvec)
SetupRuns(w, o) == Cardinality({i \in 1..(setup_i[w] - 1) : opvec[i] = o})

\* C33: a worker whose setup routines have not all succeeded is in its
\* setup or has ended on a failed setup, has no operation and no outcome,
\* and none of its steps touches the channel, the queue or the target; a
\* worker whose setup failed stays ended.
C33_SetupPrecedesWork ==
    /\ [](\A w \in Workers :
            SetupPending(w) =>
                /\ pc[w] \in {"setup", "panicked"}
                /\ op[w] = "-" /\ outcome[w] = "None" /\ fname[w] = NoKey)
    /\ [][\A w \in Workers :
            SetupPending(w) =>
                /\ pc[w] = "panicked" => pc'[w] = "panicked"
                /\ (pc'[w] # pc[w] \/ setup_i'[w] # setup_i[w]) =>
                      chan' = chan /\ items' = items /\ nextid' = nextid]_vars

\* C33 witness: worker 1 has ended on the failed setup of its writer while
\* worker 2, whose setup succeeded, has a request in flight.
C33_Witness ==
    /\ pc[1] = "panicked" /\ SetupPending(1)
    /\ ~SetupPending(2) /\ pc[2] = "io"

\* C34: a worker calls the setup of each operator of its workload once,
\* whatever the operator's weight, before its loop begins.
C34_SetupIsOneTime ==
    \A w \in Workers : \A o \in ops :
        /\ SetupRuns(w, o) <= 1
        /\ pc[w] \notin {"setup", "panicked"} => SetupRuns(w, o) = 1

\* C35: the write-byte total that is compared with the data cap is the sum
\* of the sizes of the Write records drained so far - read, delete and error
\* records add nothing - and it never decreases.
C35_OnlyWritesCount ==
    /\ [](total_bytes_written = SumField(OfOp(drained, "w"), "size"))
    /\ [][total_bytes_written' >= total_bytes_written]_vars

\* C35 witness: a write, a read of nonzero size and an error have been
\* drained, and the total is the size of the write.
C35_Witness ==
    /\ Len(drained) = 3
    /\ drained[1].op = "w" /\ drained[2].op = "r" /\ drained[3].op = "error"
    /\ drained[2].size > 0
    /\ total_bytes_written = drained[1].size

\* The sum of the WorkerStats of a map of threads.
RECURSIVE SumStats(_)
SumStats(m) ==
    IF DOMAIN m = {} THEN ZeroStat
    ELSE LET i == CHOOSE j \in DOMAIN m : TRUE
             rest == SumStats([j \in DOMAIN m \ {i} |-> m[j]])
         IN  [objs |-> m[i].objs + rest.objs, data |-> m[i].data + rest.data,
              ttfb |-> m[i].ttfb + rest.ttfb, rtt |-> m[i].rtt + rest.rtt]

\* C40: after the drain of a wake, the per-interval bucket of each operation
\* equals the sum of the operation's per-thread-per-interval buckets.
C40_TickEqualsSumOfThreads ==
    /\ DOMAIN op_ticks = DOMAIN op_stats
    /\ \A o \in DOMAIN op_ticks : op_ticks[o] = SumStats(op_stats[o])

\* C40 witness: a wake has ended in which both workers read.
C40_Witness ==
    /\ cpc = "sleep"
    /\ "r" \in DOMAIN op_stats
    /\ DOMAIN op_stats["r"] = Workers
    /\ op_ticks["r"].objs >= 2

\* C39: every list that expand_distribution accepts is non-empty, so the
\* uniform pick of an operation or of a size never fails on an empty list.
C39_AcceptedDistributionsAreNonEmpty ==
    ret.kind = "ok" => ret.val # <<>>

\* C36: when --queue-mode is not one of lru, mru, rand, the launcher names
\* the default mode 'rand' and the Queue is created in rand mode.
C36_UnknownModeFallsBackToRand ==
    (ret.kind = "ok" /\ arg \notin {<<"l", "r", "u">>, <<"m", "r", "u">>, DEF_QUEUE_MODE})
        => (ret.msg = DEF_QUEUE_MODE /\ mode = "rand")

====
